---------------------------- MODULE Spec2Model ----------------------------
(***************************************************************************)
(* A model of the DNA sequence classifier scripts:                         *)
(*   src/train_model.py  DNASequenceClassifier, main, create_demo_model    *)
(*   src/check_model.py  check_and_create_model, create_simple_model       *)
(*                                                                         *)
(* Characters are one-character strings, a Python str is a sequence of     *)
(* them.  Python's 0-based indices are 1-based here.  The neural network   *)
(* (keras), the label encoder (sklearn) and the exporter (tensorflowjs)    *)
(* are external: the network's numeric results and the external calls'     *)
(* failures are inputs chosen with \E.                                     *)
(***************************************************************************)
EXTENDS Integers, Sequences, FiniteSets, TLC

VARIABLES classifier,      \* the DNASequenceClassifier instance (its fields)
          sequence,        \* the raw sequence handed to one_hot_encode_sequence
          files,           \* the file system: file name -> content
          call,            \* the last completed call: [op, raised, value, wrote]
          train_returned   \* history: some train() on the instance returned normally

vars == <<classifier, sequence, files, call, train_returned>>

----------------------------------------------------------------------------
(* Bounds of the model *)

MaxSeqLen == 3      \* raw sequences of every length 0..MaxSeqLen are inputs
MaxL == 3           \* target lengths 1..MaxL are inputs
ProbUnits == 2      \* a probability vector is 4 naturals summing to ProbUnits

(* Program constants *)

DefaultSequenceLength == 1000

----------------------------------------------------------------------------
(* Sequence encoder: DNASequenceClassifier.one_hot_encode_sequence *)

Bases == {"A", "T", "C", "G"}

\* The characters raw inputs are drawn from: the bases in both cases, the
\* invalid letters N and X, and the ligature U+FB06 (written "st"), whose
\* str.upper() is the two characters "ST".
Alphabet == {"A", "T", "C", "G", "a", "t", "c", "g", "N", "X", "st"}

\* str.upper() of one character.
CharUpper(c) ==
    CASE c = "a" -> <<"A">>
      [] c = "t" -> <<"T">>
      [] c = "c" -> <<"C">>
      [] c = "g" -> <<"G">>
      [] c = "st" -> <<"S", "T">>
      [] OTHER -> <<c>>

RECURSIVE StrUpper(_)
\* sequence.upper()
StrUpper(s) ==
    IF s = <<>> THEN <<>> ELSE CharUpper(Head(s)) \o StrUpper(Tail(s))

IsBase(base) == base \in {"A", "T", "C", "G"}

\* Mutant: the filter without the conversion to uppercase.
FilterValid_NoUpper(s) == SelectSeq(s, IsBase)

\* ''.join([base for base in sequence.upper() if base in 'ATCG'])
FilterValid(s) == SelectSeq(StrUpper(s), IsBase)

\* Mutant: padding without the truncation.
PadOrTruncate_NoTruncate(s, length) ==
    IF Len(s) < length
    THEN s \o [i \in 1..(length - Len(s)) |-> "N"]
    ELSE s

\* Pad with 'N' or truncate to the fixed length.
PadOrTruncate(s, length) ==
    IF Len(s) < length
    THEN s \o [i \in 1..(length - Len(s)) |-> "N"]
    ELSE SubSeq(s, 1, length)

\* Mutant: the vectors in the order A, C, G, T.
mapping_ACGT ==
    [base \in Bases |->
        CASE base = "A" -> <<1, 0, 0, 0>>
          [] base = "C" -> <<0, 1, 0, 0>>
          [] base = "G" -> <<0, 0, 1, 0>>
          [] base = "T" -> <<0, 0, 0, 1>>]

mapping ==
    [base \in Bases |->
        CASE base = "A" -> <<1, 0, 0, 0>>
          [] base = "T" -> <<0, 1, 0, 0>>
          [] base = "C" -> <<0, 0, 1, 0>>
          [] base = "G" -> <<0, 0, 0, 1>>]

\* The loop over the padded sequence.
EncodeBases(s) ==
    [i \in 1..Len(s) |->
        IF s[i] \in DOMAIN mapping THEN mapping[s[i]] ELSE <<0, 0, 0, 0>>]

one_hot_encode_sequence(self, s) ==
    EncodeBases(PadOrTruncate(FilterValid(s), self.sequence_length))

----------------------------------------------------------------------------
(* The classifier instance *)

NoModel == "None"
class_names == <<"Human", "Bacteria", "Virus", "Plant">>

\* LabelEncoder(): not fitted, no classes_ attribute.
LabelEncoder == [fitted |-> FALSE, classes_ |-> <<>>]

\* DNASequenceClassifier.__init__
DNASequenceClassifier(sequence_length) ==
    [sequence_length |-> sequence_length,
     model |-> NoModel,
     label_encoder |-> LabelEncoder,
     class_names |-> class_names]

----------------------------------------------------------------------------
(* Exceptions and files *)

\* No exception: the call returned.
NoException == [type |-> "None", origin |-> "None"]

Raise(type, origin) == [type |-> type, origin |-> origin]

\* The exception classes the calls below raise; all derive from Exception.
ExceptionTypes ==
    {"ValueError", "KeyError", "OSError", "ImportError", "AttributeError",
     "NotFittedError", "RuntimeError"}

\* Mutant: a handler for ValueError only.
IsValueError(e) == e.type = "ValueError"

\* isinstance(e, Exception), the class main()'s handler names.
IsException(e) == e.type \in ExceptionTypes

ModelJson == "models/model.json"
WeightsBin == "models/weights.bin"
WeightShard == "models/group1-shard1of1.bin"
ModelInfoJson == "models/model_info.json"
ClassifierH5 == "dna_classifier.h5"
BestModelH5 == "best_model.h5"

FileNames ==
    {ModelJson, WeightsBin, WeightShard, ModelInfoJson, ClassifierH5, BestModelH5}

Absent == [kind |-> "absent"]
Unparsable == [kind |-> "unparsable"]     \* a file json.load rejects
EmptyFile == [kind |-> "empty"]           \* a file of 0 bytes
SomeBytes == [kind |-> "bytes"]           \* a non-empty binary file

NoFiles == [name \in FileNames |-> Absent]

\* What a call returns to the model: the instance and the files after it, the
\* exception it raised, its return value and the files it wrote.
Outcome(self, fs, raised, value, wrote) ==
    [self |-> self, files |-> fs, raised |-> raised, value |-> value,
     wrote |-> wrote]

NoCall == [op |-> "none", raised |-> NoException, value |-> <<>>, wrote |-> {}]

\* tfjs.converters.save_keras_model(model, 'models/'): the weights of the
\* model go to a shard file, its topology and weights manifest to model.json.
save_keras_model(fs, model, producer) ==
    [fs EXCEPT ![WeightShard] = [kind |-> "weights", model |-> model],
               ![ModelJson] = [kind |-> "manifest", producer |-> producer]]

BundleFiles == {WeightShard, ModelJson}

----------------------------------------------------------------------------
(* Dataset loader: DNASequenceClassifier.load_and_preprocess_data *)

ClassLabels == {"Human", "Bacteria", "Virus", "Plant"}

\* The four labels in sorted (np.unique) order.
SortedLabels == <<"Bacteria", "Human", "Plant", "Virus">>

\* LabelEncoder.fit_transform(labels): classes_ is the sorted distinct labels.
fit_transform(labels) ==
    LET Present(l) == l \in labels
    IN  [fitted |-> TRUE, classes_ |-> SelectSeq(SortedLabels, Present)]

\* dataset: [read, labels]: how reading the file ends and the distinct labels
\* of its label column.  X, the stacked one_hot_encode_sequence of every row,
\* and y, the label indices, go to the network only and are returned as "X, y".
load_and_preprocess_data(self, fs, dataset) ==
    IF dataset.read = "read_excel_raises"
    THEN Outcome(self, fs, Raise("OSError", "load_and_preprocess_data"), <<>>, {})
    ELSE IF dataset.read = "column_missing"
    THEN Outcome(self, fs, Raise("KeyError", "load_and_preprocess_data"), <<>>, {})
    ELSE Outcome([self EXCEPT !.label_encoder = fit_transform(dataset.labels)],
                 fs, NoException, "X, y", {})

----------------------------------------------------------------------------
(* Model pipeline: train, evaluate, predict, save_model *)

\* how: where the call ends: "split_raises" (train_test_split), "build_raises"
\* (build_model), "fit_raises_early" (model.fit before any checkpoint),
\* "fit_raises" (model.fit after a checkpoint) or "ok".
train(self, fs, how) ==
    IF how = "split_raises"
    THEN Outcome(self, fs, Raise("ValueError", "train"), <<>>, {})
    ELSE IF how = "build_raises"
    THEN Outcome(self, fs, Raise("ValueError", "train"), <<>>, {})
    ELSE LET built == [self EXCEPT !.model = "built"]
             checkpoint == [fs EXCEPT ![BestModelH5] = [kind |-> "h5"]]
         IN  IF how = "fit_raises_early"
             THEN Outcome(built, fs, Raise("RuntimeError", "train"), <<>>, {})
             ELSE IF how = "fit_raises"
             THEN Outcome(built, checkpoint, Raise("RuntimeError", "train"),
                          <<>>, {BestModelH5})
             ELSE Outcome([self EXCEPT !.model = "trained"], checkpoint,
                          NoException, "history", {BestModelH5})

\* Mutant: evaluate() without its guard, None.evaluate raising AttributeError.
evaluate_Unguarded(self, fs, how) ==
    IF self.model = NoModel
    THEN Outcome(self, fs, Raise("AttributeError", "evaluate"), <<>>, {})
    ELSE IF how = "evaluate_raises"
    THEN Outcome(self, fs, Raise("RuntimeError", "evaluate"), <<>>, {})
    ELSE Outcome(self, fs, NoException, "loss, accuracy", {})

\* how: "evaluate_raises" (self.model.evaluate) or "ok".
evaluate(self, fs, how) ==
    IF self.model = NoModel
    THEN Outcome(self, fs, Raise("ValueError", "evaluate"), <<>>, {})
    ELSE IF how = "evaluate_raises"
    THEN Outcome(self, fs, Raise("RuntimeError", "evaluate"), <<>>, {})
    ELSE Outcome(self, fs, NoException, "loss, accuracy", {})

\* np.argmax: the first index holding the maximum.
argmax(p) ==
    CHOOSE i \in 1..Len(p) :
        /\ \A j \in 1..Len(p) : p[j] <= p[i]
        /\ \A j \in 1..(i - 1) : p[j] < p[i]

\* {self.class_names[i]: float(prob) for i, prob in enumerate(predictions[0])}
all_probabilities(self, p) ==
    [name \in {self.class_names[i] : i \in 1..Len(p)} |->
        LET last == CHOOSE i \in 1..Len(p) :
                        /\ self.class_names[i] = name
                        /\ \A j \in (i + 1)..Len(p) : self.class_names[j] # name
        IN  p[last]]

\* predictions: the probability vector self.model.predict returns.
predict(self, fs, s, predictions) ==
    IF self.model = NoModel
    THEN Outcome(self, fs, Raise("ValueError", "predict"), <<>>, {})
    ELSE LET encoded_seq == <<one_hot_encode_sequence(self, s)>>
             predicted_class == argmax(predictions)
             confidence == predictions[predicted_class]
             encoder == self.label_encoder
         IN  IF ~encoder.fitted
             THEN Outcome(self, fs, Raise("NotFittedError", "predict"), <<>>, {})
             ELSE IF predicted_class > Len(encoder.classes_)
             THEN Outcome(self, fs, Raise("ValueError", "predict"), <<>>, {})
             ELSE Outcome(self, fs, NoException,
                          [class |-> encoder.classes_[predicted_class],
                           confidence |-> confidence,
                           all_probabilities |->
                               all_probabilities(self, predictions)],
                          {})

\* how: "h5_raises" (self.model.save), "import_raises" (import tensorflowjs),
\* "convert_raises" (save_keras_model), "open_raises" (open of the sidecar)
\* or "ok".
save_model(self, fs, how) ==
    IF self.model = NoModel
    THEN Outcome(self, fs, Raise("ValueError", "save_model"), <<>>, {})
    ELSE IF how = "h5_raises"
    THEN Outcome(self, fs, Raise("OSError", "save_model"), <<>>, {})
    ELSE LET fs1 == [fs EXCEPT ![ClassifierH5] = [kind |-> "h5"]]
             fs2 == save_keras_model(fs1, self.model, "save_model")
             model_info ==
                 [class_names |-> self.class_names,
                  sequence_length |-> self.sequence_length,
                  label_encoder_classes |-> self.label_encoder.classes_]
             fs3 == [fs2 EXCEPT ![ModelInfoJson] =
                                    [kind |-> "info", data |-> model_info]]
         IN  IF how = "import_raises"
             THEN Outcome(self, fs1, Raise("ImportError", "save_model"), <<>>,
                          {ClassifierH5})
             ELSE IF how = "convert_raises"
             THEN Outcome(self, fs1, Raise("OSError", "save_model"), <<>>,
                          {ClassifierH5})
             ELSE IF ~self.label_encoder.fitted
             THEN Outcome(self, fs2, Raise("AttributeError", "save_model"),
                          <<>>, {ClassifierH5} \cup BundleFiles)
             ELSE IF how = "open_raises"
             THEN Outcome(self, fs2, Raise("OSError", "save_model"), <<>>,
                          {ClassifierH5} \cup BundleFiles)
             ELSE Outcome(self, fs3, NoException, <<>>,
                          {ClassifierH5, ModelInfoJson} \cup BundleFiles)

----------------------------------------------------------------------------
(* Placeholder models: create_demo_model and create_simple_model *)

\* how: "import_raises" (import tensorflowjs), "convert_raises"
\* (save_keras_model), "open_raises" (open of the sidecar) or "ok".
create_demo_model(fs, how) ==
    LET fs1 == save_keras_model(fs, "demo", "create_demo_model")
        model_info ==
            [class_names |-> <<"Human", "Bacteria", "Virus", "Plant">>,
             sequence_length |-> 1000,
             label_encoder_classes |-> <<"Human", "Bacteria", "Virus", "Plant">>]
        fs2 == [fs1 EXCEPT ![ModelInfoJson] =
                               [kind |-> "info", data |-> model_info]]
    IN  IF how = "import_raises"
        THEN Outcome(<<>>, fs, Raise("ImportError", "create_demo_model"), <<>>, {})
        ELSE IF how = "convert_raises"
        THEN Outcome(<<>>, fs, Raise("OSError", "create_demo_model"), <<>>, {})
        ELSE IF how = "open_raises"
        THEN Outcome(<<>>, fs1, Raise("OSError", "create_demo_model"), <<>>,
                     BundleFiles)
        ELSE Outcome(<<>>, fs2, NoException, <<>>,
                     BundleFiles \cup {ModelInfoJson})

\* how: "import_raises" (import tensorflowjs), "convert_raises"
\* (save_keras_model) or "ok".
create_simple_model(fs, how) ==
    IF how = "import_raises"
    THEN Outcome(<<>>, fs, Raise("ImportError", "create_simple_model"), <<>>, {})
    ELSE IF how = "convert_raises"
    THEN Outcome(<<>>, fs, Raise("OSError", "create_simple_model"), <<>>, {})
    ELSE Outcome(<<>>, save_keras_model(fs, "simple", "create_simple_model"),
                 NoException, <<>>, BundleFiles)

----------------------------------------------------------------------------
(* Bootstrap script: check_and_create_model *)

\* os.path.exists(path)
exists(fs, path) == fs[path].kind # "absent"

\* json.load(f) succeeds on the file's content.
json_loads(content) == content.kind \in {"manifest", "info"}

\* Mutant: the placeholder is created whether or not model.json exists.
check_and_create_model_Always(fs, how) ==
    LET created == create_simple_model(fs, how)
    IN  Outcome(<<>>, created.files, created.raised,
                [creates |-> 1,
                 weights |-> IF created.raised # NoException THEN "unchecked"
                             ELSE IF exists(created.files, WeightsBin)
                             THEN "exists" ELSE "missing"],
                created.wrote)

\* how: how a create_simple_model() call of this run ends.
\* The value records the number of create_simple_model() calls and what the
\* weights check printed.
check_and_create_model(fs, how) ==
    LET created == create_simple_model(fs, how)
        first == IF ~exists(fs, ModelJson)
                 THEN created
                 ELSE Outcome(<<>>, fs, NoException, <<>>, {})
        n1 == IF ~exists(fs, ModelJson) THEN 1 ELSE 0
        fs1 == first.files
        repaired == create_simple_model(fs1, how)
    IN  IF first.raised # NoException
        THEN Outcome(<<>>, fs1, first.raised,
                     [creates |-> n1, weights |-> "unchecked"], first.wrote)
        ELSE IF exists(fs1, ModelJson) /\ json_loads(fs1[ModelJson])
        THEN Outcome(<<>>, fs1, NoException,
                     [creates |-> n1,
                      weights |-> IF exists(fs1, WeightsBin)
                                  THEN "exists" ELSE "missing"],
                     first.wrote)
        ELSE Outcome(<<>>, repaired.files, repaired.raised,
                     [creates |-> n1 + 1, weights |-> "unchecked"],
                     first.wrote \cup repaired.wrote)

----------------------------------------------------------------------------
(* Training script: main *)

\* The value records the stage whose exception reached the handler ("none"
\* on the success path), the number of create_demo_model() calls and the
\* classifier main() built.
main(fs, dataset, train_how, evaluate_how, save_how, demo_how) ==
    LET c0 == DNASequenceClassifier(1000)
        r1 == load_and_preprocess_data(c0, fs, dataset)
        r2 == train(r1.self, r1.files, train_how)
        r3 == evaluate(r2.self, r2.files, evaluate_how)
        r4 == save_model(r3.self, r3.files, save_how)
        \* the try block: the first stage that raises ends it
        body ==
            IF r1.raised # NoException
            THEN [r1 EXCEPT !.value = "load_and_preprocess_data"]
            ELSE IF r2.raised # NoException
            THEN [r2 EXCEPT !.value = "train", !.wrote = r1.wrote \cup r2.wrote]
            ELSE IF r3.raised # NoException
            THEN [r3 EXCEPT !.value = "evaluate",
                            !.wrote = r1.wrote \cup r2.wrote \cup r3.wrote]
            ELSE IF r4.raised # NoException
            THEN [r4 EXCEPT !.value = "save_model",
                            !.wrote = r1.wrote \cup r2.wrote \cup r3.wrote
                                          \cup r4.wrote]
            ELSE [r4 EXCEPT !.value = "none",
                            !.wrote = r1.wrote \cup r2.wrote \cup r3.wrote
                                          \cup r4.wrote]
        demo == create_demo_model(body.files, demo_how)
    IN  IF body.raised = NoException
        THEN Outcome(body.self, body.files, NoException,
                     [failed_stage |-> "none", demo_calls |-> 0,
                      classifier |-> body.self],
                     body.wrote)
        ELSE IF IsException(body.raised)
        THEN Outcome(body.self, demo.files, demo.raised,
                     [failed_stage |-> body.value, demo_calls |-> 1,
                      classifier |-> body.self],
                     body.wrote \cup demo.wrote)
        ELSE Outcome(body.self, body.files, body.raised,
                     [failed_stage |-> body.value, demo_calls |-> 0,
                      classifier |-> body.self],
                     body.wrote)

----------------------------------------------------------------------------
(* Inputs *)

Str(n) == [1..n -> Alphabet]

ExampleUpper == <<"A", "T", "C", "G">>
ExampleLower == <<"a", "t", "c", "g">>
ExampleMixed == <<"A", "X", "T", "X", "C", "X", "G">>
ExampleFull ==
    <<"A", "A", "A", "A", "T", "T", "T", "T",
      "C", "C", "C", "C", "G", "G", "G", "G">>
Examples == {ExampleUpper, ExampleLower, ExampleMixed, ExampleFull}

RawSequences == (UNION {Str(n) : n \in 0..MaxSeqLen}) \cup Examples

Lengths == (1..MaxL) \cup {Len(ExampleFull)}

\* The label columns, by their distinct labels: no row, one class only, two
\* classes, all four classes.
LabelSets == {{}, {"Virus"}, {"Human", "Bacteria"}, ClassLabels}

Datasets ==
    {[read |-> "ok", labels |-> l] : l \in LabelSets}
    \cup {[read |-> r, labels |-> {}] :
              r \in {"read_excel_raises", "column_missing"}}

TrainOutcomes ==
    {"split_raises", "build_raises", "fit_raises_early", "fit_raises", "ok"}
EvaluateOutcomes == {"evaluate_raises", "ok"}
SaveOutcomes ==
    {"h5_raises", "import_raises", "convert_raises", "open_raises", "ok"}
DemoOutcomes == {"import_raises", "convert_raises", "open_raises", "ok"}
SimpleOutcomes == {"import_raises", "convert_raises", "ok"}

\* The probability vectors of the 4-way softmax, in units of 1/ProbUnits.
ProbVectors ==
    {p \in [1..4 -> 0..ProbUnits] : p[1] + p[2] + p[3] + p[4] = ProbUnits}

----------------------------------------------------------------------------
(* The encoder on its own: every raw sequence, every target length *)

InitEncoder ==
    /\ \E length \in Lengths : classifier = DNASequenceClassifier(length)
    /\ sequence \in RawSequences
    /\ files = NoFiles
    /\ call = NoCall
    /\ train_returned = FALSE

OneHotEncodeSequence ==
    /\ call.op = "none"
    /\ call' = [op |-> "one_hot_encode_sequence",
                raised |-> NoException,
                value |-> one_hot_encode_sequence(classifier, sequence),
                wrote |-> {}]
    /\ UNCHANGED <<classifier, sequence, files, train_returned>>

NextEncoder == OneHotEncodeSequence

SpecEncoder == InitEncoder /\ [][NextEncoder]_vars

----------------------------------------------------------------------------
(* One classifier instance and its callers: any sequence of calls *)

Init ==
    /\ classifier = DNASequenceClassifier(DefaultSequenceLength)
    /\ sequence = ExampleMixed
    /\ files = NoFiles
    /\ call = NoCall
    /\ train_returned = FALSE

\* The state after a call on the instance that ended as r.
Return(op, r) ==
    /\ classifier' = r.self
    /\ files' = r.files
    /\ call' = [op |-> op, raised |-> r.raised, value |-> r.value,
                wrote |-> r.wrote]
    /\ UNCHANGED sequence

LoadAndPreprocessData ==
    /\ \E dataset \in Datasets :
           Return("load_and_preprocess_data",
                  load_and_preprocess_data(classifier, files, dataset))
    /\ UNCHANGED train_returned

Train ==
    \E how \in TrainOutcomes :
        LET r == train(classifier, files, how)
        IN  /\ Return("train", r)
            /\ train_returned' = (train_returned \/ r.raised = NoException)

Evaluate ==
    /\ \E how \in EvaluateOutcomes :
           Return("evaluate", evaluate(classifier, files, how))
    /\ UNCHANGED train_returned

Predict ==
    /\ \E predictions \in ProbVectors :
           Return("predict", predict(classifier, files, sequence, predictions))
    /\ UNCHANGED train_returned

SaveModel ==
    /\ \E how \in SaveOutcomes :
           Return("save_model", save_model(classifier, files, how))
    /\ UNCHANGED train_returned

Next ==
    \/ LoadAndPreprocessData
    \/ Train
    \/ Evaluate
    \/ Predict
    \/ SaveModel

Spec == Init /\ [][Next]_vars

----------------------------------------------------------------------------
(* The two scripts run on one models/ directory, in any order *)

InitScripts ==
    /\ classifier = DNASequenceClassifier(DefaultSequenceLength)
    /\ sequence = ExampleMixed
    /\ \E manifest \in {Absent, Unparsable,
                        [kind |-> "manifest", producer |-> "save_model"]},
          weights \in {Absent, EmptyFile, SomeBytes} :
           files = [NoFiles EXCEPT ![ModelJson] = manifest,
                                   ![WeightsBin] = weights]
    /\ call = NoCall
    /\ train_returned = FALSE

\* The state after a run of a script that ended as r.
Exit(op, r) ==
    /\ files' = r.files
    /\ call' = [op |-> op, raised |-> r.raised, value |-> r.value,
                wrote |-> r.wrote]
    /\ UNCHANGED <<classifier, sequence, train_returned>>

\* The outcome of a stage matters only when main() reaches the stage: the
\* outcome of a stage it does not reach is written "ok".  An empty label
\* column cannot be split.
Reached(dataset, train_how, evaluate_how, save_how, demo_how) ==
    /\ dataset.read # "ok" => train_how = "ok"
    /\ (dataset.read = "ok" /\ dataset.labels = {}) => train_how = "split_raises"
    /\ (dataset.read # "ok" \/ train_how # "ok") => evaluate_how = "ok"
    /\ (dataset.read # "ok" \/ train_how # "ok" \/ evaluate_how # "ok")
           => save_how = "ok"
    /\ (dataset.read = "ok" /\ train_how = "ok" /\ evaluate_how = "ok"
           /\ save_how = "ok") => demo_how = "ok"

\* python train_model.py
Main ==
    \E dataset \in Datasets, train_how \in TrainOutcomes,
       evaluate_how \in EvaluateOutcomes, save_how \in SaveOutcomes,
       demo_how \in DemoOutcomes :
        /\ Reached(dataset, train_how, evaluate_how, save_how, demo_how)
        /\ Exit("main", main(files, dataset, train_how, evaluate_how,
                             save_how, demo_how))

\* python check_model.py
CheckAndCreateModel ==
    \E how \in SimpleOutcomes :
        LET r == check_and_create_model(files, how)
        IN  Exit("check_and_create_model", r)

NextScripts ==
    \/ Main
    \/ CheckAndCreateModel

SpecScripts == InitScripts /\ [][NextScripts]_vars

----------------------------------------------------------------------------
(* Properties of the encoder, checked under SpecEncoder *)

Encoded == call.op = "one_hot_encode_sequence"

ZeroRow == <<0, 0, 0, 0>>

\* The canonical one-hot vector of a symbol, as the specification lists them.
CanonicalRow(b) ==
    IF b = "A" THEN <<1, 0, 0, 0>>
    ELSE IF b = "T" THEN <<0, 1, 0, 0>>
    ELSE IF b = "C" THEN <<0, 0, 1, 0>>
    ELSE <<0, 0, 0, 1>>

\* The symbols one raw character contributes: the A/T/C/G letters of its
\* uppercase form.
SymbolsOfChar(c) ==
    IF c \in {"A", "a"} THEN <<"A">>
    ELSE IF c \in {"T", "t", "st"} THEN <<"T">>
    ELSE IF c \in {"C", "c"} THEN <<"C">>
    ELSE IF c \in {"G", "g"} THEN <<"G">>
    ELSE <<>>

RECURSIVE SymbolSequence(_)
\* The input uppercased with every character outside {A,T,C,G} removed.
SymbolSequence(s) ==
    IF Len(s) = 0 THEN <<>>
    ELSE SymbolSequence(SubSeq(s, 1, Len(s) - 1)) \o SymbolsOfChar(s[Len(s)])

\* C2: for every input string and every target length L >= 1 the encoder
\* returns exactly L rows of 4 columns, and when the input holds no valid
\* symbol (the empty string included) every row is the zero vector.
C2_Shape ==
    Encoded =>
        /\ Len(call.value) = classifier.sequence_length
        /\ \A i \in 1..Len(call.value) : Len(call.value[i]) = 4
        /\ SymbolSequence(sequence) = <<>> =>
               \A i \in 1..classifier.sequence_length : call.value[i] = ZeroRow

\* C2's case: an input of invalid characters only, longer than the target
\* length, encoded to all-zero rows.
C2_Witness ==
    /\ Encoded
    /\ sequence = <<"X", "N", "X">>
    /\ classifier.sequence_length = 2
    /\ call.value = <<ZeroRow, ZeroRow>>

\* C3: with f the uppercased, filtered input, row i is the canonical one-hot
\* vector of f[i] when i is within f and the zero vector otherwise; so every
\* row is one of five values, zero rows form a suffix, a longer input is cut
\* to its first L symbols and L valid symbols leave no zero row.
C3_Rows ==
    Encoded =>
        LET f == SymbolSequence(sequence)
            L == classifier.sequence_length
            rows == call.value
        IN  /\ DOMAIN rows = 1..L
            /\ \A i \in 1..L :
                   rows[i] = IF i <= Len(f) THEN CanonicalRow(f[i]) ELSE ZeroRow
            /\ \A i \in 1..L :
                   rows[i] \in {CanonicalRow(b) : b \in Bases} \cup {ZeroRow}
            /\ \A i, j \in 1..L : (i < j /\ rows[i] = ZeroRow) => rows[j] = ZeroRow
            /\ Len(f) >= L => \A i \in 1..L : rows[i] # ZeroRow

\* C3's case: 'AAAATTTTCCCCGGGG' encoded with L = 16.
C3_Witness ==
    /\ Encoded
    /\ sequence = ExampleFull
    /\ classifier.sequence_length = 16
    /\ call.value =
           [i \in 1..16 |->
               IF i <= 4 THEN <<1, 0, 0, 0>>
               ELSE IF i <= 8 THEN <<0, 1, 0, 0>>
               ELSE IF i <= 12 THEN <<0, 0, 1, 0>>
               ELSE <<0, 0, 0, 1>>]

\* C4: the encoding depends only on the uppercased, filtered symbol sequence:
\* every input encodes as its own symbol sequence does (so two inputs with
\* equal symbol sequences encode equally), and in particular 'atcg' and
\* 'AXTXCXG' encode as 'ATCG'.
C4_DependsOnSymbols ==
    Encoded =>
        /\ call.value =
               one_hot_encode_sequence(classifier, SymbolSequence(sequence))
        /\ sequence \in {ExampleLower, ExampleMixed} =>
               call.value = one_hot_encode_sequence(classifier, ExampleUpper)

\* C4's case: 'AXTXCXG' encoded as the 4 symbols ATCG followed by padding,
\* not as 7 positions.
C4_Witness ==
    /\ Encoded
    /\ sequence = ExampleMixed
    /\ classifier.sequence_length = 16
    /\ call.value = one_hot_encode_sequence(classifier, ExampleUpper)
    /\ call.value[2] = <<0, 1, 0, 0>>
    /\ call.value[5] = ZeroRow

----------------------------------------------------------------------------
(* Properties of one classifier instance, checked under Spec *)

GuardedOps == {"evaluate", "predict", "save_model"}

\* C1: on a trained classifier whose label encoder was fitted on the four
\* class names, the 'class' predict() returns is a key of 'all_probabilities'
\* carrying the largest probability, and 'confidence' is
\* all_probabilities[class].
C1_ClassIsArgmaxName ==
    (/\ call.op = "predict"
     /\ call.raised = NoException
     /\ classifier.model = "trained"
     /\ train_returned
     /\ {classifier.label_encoder.classes_[i] :
            i \in 1..Len(classifier.label_encoder.classes_)} = ClassLabels)
    => LET r == call.value
       IN  /\ r.class \in DOMAIN r.all_probabilities
           /\ \A name \in DOMAIN r.all_probabilities :
                  r.all_probabilities[name] <= r.all_probabilities[r.class]
           /\ r.confidence = r.all_probabilities[r.class]

\* C5: on a classifier whose model is None, evaluate(), predict() and
\* save_model() raise ValueError, leave every field of the classifier as it
\* was and write no file.
C5_UntrainedRaises ==
    [][(classifier.model = NoModel /\ call'.op \in GuardedOps)
          => /\ call'.raised = Raise("ValueError", call'.op)
             /\ classifier' = classifier
             /\ files' = files
             /\ call'.wrote = {}]_vars

\* C5's case: save_model() called on a classifier with a fitted label
\* encoder and no model, ending in the usage error.
C5_Witness ==
    /\ call.op = "save_model"
    /\ call.raised = Raise("ValueError", "save_model")
    /\ classifier.model = NoModel
    /\ classifier.label_encoder.fitted
    /\ ~train_returned

\* C10: evaluate(), predict() and save_model() get past their guard only if
\* an earlier train() on the instance returned normally, a train() that
\* raises leaves the model as it was, and the weights save_model() persists
\* are those of a model whose training completed.
C10_GuardNeedsCompletedTrain ==
    /\ (call.op \in GuardedOps /\ classifier.model # NoModel) => train_returned
    /\ (call.op = "train" /\ call.raised # NoException /\ ~train_returned)
           => classifier.model = NoModel
    /\ files[WeightShard].kind = "weights" =>
           (train_returned /\ files[WeightShard].model = "trained")

----------------------------------------------------------------------------
(* Properties of the scripts, checked under SpecScripts *)

\* C6: once check_and_create_model() returns, models/ holds a manifest that
\* parses, and whenever the weights artifact weights.bin was missing or empty
\* the run synthesized a placeholder bundle.  (Nothing in either script
\* writes weights.bin, so the file after the run is the file before it.)
C6_LoadableBundleAfterCheck ==
    (call.op = "check_and_create_model" /\ call.raised = NoException)
    => /\ files[ModelJson].kind = "manifest"
       /\ files[WeightsBin].kind \in {"absent", "empty"}
              => call.value.creates >= 1

\* C7: a run of check_and_create_model() on a directory whose manifest
\* parses writes no file and does not call create_simple_model(), and so does
\* a run that follows a run that returned.
C7_Idempotent ==
    [][call'.op = "check_and_create_model"
          => /\ files[ModelJson].kind = "manifest"
                    => /\ files' = files
                       /\ call'.wrote = {}
                       /\ call'.value.creates = 0
                       /\ call'.raised = NoException
             /\ (call.op = "check_and_create_model" /\ call.raised = NoException)
                    => /\ files' = files
                       /\ call'.wrote = {}
                       /\ call'.value.creates = 0]_vars

\* C7's case: a run that found the bundle an earlier bootstrap run wrote and
\* left it alone.
C7_Witness ==
    /\ call.op = "check_and_create_model"
    /\ call.raised = NoException
    /\ call.value.creates = 0
    /\ call.wrote = {}
    /\ files[ModelJson] = [kind |-> "manifest", producer |-> "create_simple_model"]
    /\ files[ModelInfoJson] = Absent

TrainingStages == {"load_and_preprocess_data", "train", "evaluate", "save_model"}

\* C8: in main() a failure of any stage of the training flow leads to exactly
\* one create_demo_model() call and does not reach main()'s caller; when all
\* four stages return, create_demo_model() is not called.
C8_FailureBecomesDemoModel ==
    call.op = "main" =>
        /\ call.value.failed_stage \in TrainingStages =>
               /\ call.value.demo_calls = 1
               /\ call.raised.origin \notin TrainingStages
        /\ call.value.failed_stage \notin TrainingStages =>
               /\ call.value.failed_stage = "none"
               /\ call.value.demo_calls = 0
               /\ call.raised = NoException

\* C8's case: save_model() failed after training and evaluation, and main()
\* returned with the demo bundle in place.
C8_Witness ==
    /\ call.op = "main"
    /\ call.value.failed_stage = "save_model"
    /\ call.value.classifier.model = "trained"
    /\ call.value.demo_calls = 1
    /\ call.raised = NoException
    /\ files[ModelJson] = [kind |-> "manifest", producer |-> "create_demo_model"]

SidecarKeys == {"class_names", "sequence_length", "label_encoder_classes"}

\* C9: every run of a script that returns having written a bundle leaves the
\* sidecar model_info.json beside it, with exactly the keys class_names,
\* sequence_length and label_encoder_classes, the sequence length being the
\* pipeline's and, after training, the label classes being the fitted ones.
C9_SidecarWithEveryBundle ==
    (/\ call.op \in {"main", "check_and_create_model"}
     /\ call.raised = NoException
     /\ ModelJson \in call.wrote)
    => /\ files[ModelInfoJson].kind = "info"
       /\ DOMAIN files[ModelInfoJson].data = SidecarKeys
       /\ files[ModelInfoJson].data.sequence_length = DefaultSequenceLength
       /\ (call.op = "main" /\ call.value.failed_stage = "none") =>
              files[ModelInfoJson].data.label_encoder_classes =
                  call.value.classifier.label_encoder.classes_

=============================================================================
